---- MODULE Spec2Model ----
(***************************************************************************)
(* Smart School Management Portal: the role-scoped data-access layer       *)
(* (school/views.py, school/api_views.py, school/serializers.py) and the   *)
(* computed attributes of the entities (school/models.py).                 *)
(*                                                                         *)
(* Dates are day numbers 0..MaxDay.  Decimal(…, 2) amounts and marks are   *)
(* integers counted in hundredths.  A null column holds NULL.  A table is  *)
(* a function from primary key to row.                                     *)
(***************************************************************************)
EXTENDS Integers, Sequences, FiniteSets, TLC

VARIABLES
    today,        \* timezone.now().date()
    role,         \* User.role, per user
    is_staff,     \* User.is_staff, per user
    results,      \* Result table
    result_seq,   \* last primary key handed out for Result
    fees,         \* Fee table
    leaves,       \* LeaveApplication table
    assignments,  \* Assignment table
    submissions,  \* Submission table
    requests,     \* submit_assignment requests between their check and their insert
    attendance,   \* Attendance table
    notices,      \* Notice table
    messages,     \* Message table
    meetings,     \* Meeting table
    issues,       \* BookIssue table
    resp          \* what the last request did: handler, acting user, outcome, rows returned

vars == <<today, role, is_staff, results, result_seq, fees, leaves,
          assignments, submissions, requests, attendance, notices, messages,
          meetings, issues, resp>>

(***************************************************************************)
(* Bounds of the model.                                                    *)
(***************************************************************************)
MaxDay == 2
MaxResults == 2
MaxFees == 1
MaxLeaves == 1
MaxAssignments == 1
MaxSubmissions == 2
MaxRequests == 2
MaxAttendance == 2
MaxAmount == 2
MaxMarkUnits == 6
MaxMeetings == 1
MaxMessages == 1
MaxNotices == 1
MaxIssues == 1

(***************************************************************************)
(* The population: users, their profiles, classrooms and subjects.         *)
(***************************************************************************)
NULL == -1

Users == 1..5

ROLE_CHOICES == {"admin", "teacher", "student"}

\* user 1 is the administrator, 2 a teacher, 3 and 4 students with a
\* profile, 5 a student whose Student profile was never created
InitRole == <<"admin", "teacher", "student", "student", "student">>

InitStaff == <<TRUE, FALSE, FALSE, FALSE, FALSE>>

Students == {1, 2}

Teachers == {1}

Subjects == {1}

ClassRooms == {1}

\* user.student_profile: the Student whose user is u (NULL: DoesNotExist)
student_profile(u) == IF u = 3 THEN 1 ELSE IF u = 4 THEN 2 ELSE NULL

\* user.teacher_profile: the Teacher whose user is u (NULL: DoesNotExist)
teacher_profile(u) == IF u = 2 THEN 1 ELSE NULL

\* student.classroom
classroom_of(s) == 1

(***************************************************************************)
(* The response of the last request.                                       *)
(*   op      the handler that ran                                          *)
(*   user    request.user                                                  *)
(*   outcome "ok", "denied" (message + redirect), "not_found" (404),       *)
(*           "duplicate" (warning + redirect), "valid" (form accepted),    *)
(*           "invalid" (form re-rendered with errors), "form" (GET),       *)
(*           "error" (unhandled exception, 500)                            *)
(*   rows    primary keys of the rows handed to the template / serializer  *)
(*   pk      the object the request named or created                       *)
(*   old     the stored value of the computed column before the request    *)
(*   given   the value of the computed column as submitted                 *)
(***************************************************************************)
Absent == "<absent>"

Resp(op, user, outcome, rows, pk, old, given) ==
    [op |-> op, user |-> user, outcome |-> outcome, rows |-> rows,
     pk |-> pk, old |-> old, given |-> given]

Reply(op, user, outcome) == Resp(op, user, outcome, {}, NULL, "", "")

Listing(op, user, rows) == Resp(op, user, "ok", rows, NULL, "", "")

\* the table t with row r stored under primary key k
Put(t, k, r) == [i \in DOMAIN t \cup {k} |-> IF i = k THEN r ELSE t[i]]

\* the table t without primary key k
Drop(t, k) == [i \in DOMAIN t \ {k} |-> t[i]]

EmptyTable == [i \in {} |-> NULL]

(***************************************************************************)
(* IEEE-754 binary64 arithmetic, as far as Result.calculate_percentage     *)
(* uses it.  A natural number is its sequence of bits, least significant   *)
(* first; a positive double is [m, e] with m of 53 bits and value m * 2^e. *)
(***************************************************************************)
MantissaBits == 53

LimbBits == 10

RECURSIVE NatToBits(_)
NatToBits(n) == IF n = 0 THEN <<>> ELSE <<n % 2>> \o NatToBits(n \div 2)

Trim(b) ==
    LET ones == {i \in 1..Len(b) : b[i] = 1}
    IN  IF ones = {} THEN <<>>
        ELSE SubSeq(b, 1, CHOOSE i \in ones : \A j \in ones : j <= i)

ShiftLeft(b, k) == IF Len(b) = 0 \/ k = 0 THEN b ELSE [i \in 1..k |-> 0] \o b

BitAt(b, i) == IF i <= Len(b) THEN b[i] ELSE 0

RECURSIVE LimbOf(_, _, _)
LimbOf(b, first, k) ==
    IF k = LimbBits THEN 0
    ELSE BitAt(b, first + k) * (2 ^ k) + LimbOf(b, first, k + 1)

ToLimbs(b) ==
    [j \in 1..((Len(b) + LimbBits - 1) \div LimbBits) |->
        LimbOf(b, LimbBits * (j - 1) + 1, 0)]

FromLimbs(l) ==
    Trim([i \in 1..(LimbBits * Len(l)) |->
            (l[((i - 1) \div LimbBits) + 1] \div (2 ^ ((i - 1) % LimbBits))) % 2])

RECURSIVE MulLimbs(_, _, _)
MulLimbs(l, d, carry) ==
    IF Len(l) = 0
    THEN IF carry = 0 THEN <<>>
         ELSE <<carry % (2 ^ LimbBits)>> \o MulLimbs(l, d, carry \div (2 ^ LimbBits))
    ELSE LET v == l[1] * d + carry
         IN  <<v % (2 ^ LimbBits)>> \o MulLimbs(Tail(l), d, v \div (2 ^ LimbBits))

\* b * d
MulSmall(b, d) == FromLimbs(MulLimbs(ToLimbs(b), d, 0))

RECURSIVE DivLimbs(_, _, _, _, _)
DivLimbs(l, d, i, q, r) ==
    IF i = 0 THEN [q |-> q, r |-> r]
    ELSE LET v == r * (2 ^ LimbBits) + l[i]
         IN  DivLimbs(l, d, i - 1, <<v \div d>> \o q, v % d)

\* quotient and remainder of b by d
DivSmall(b, d) ==
    LET l  == ToLimbs(b)
        st == DivLimbs(l, d, Len(l), <<>>, 0)
    IN  [q |-> FromLimbs(st.q), r |-> st.r]

AddOne(b) ==
    LET zeros == {i \in 1..Len(b) : b[i] = 0}
    IN  IF zeros = {} THEN [i \in 1..Len(b) |-> 0] \o <<1>>
        ELSE LET z == CHOOSE i \in zeros : \A j \in zeros : i <= j
             IN  [i \in 1..Len(b) |-> IF i < z THEN 0 ELSE IF i = z THEN 1 ELSE b[i]]

\* Q * 2^e (plus a non-zero fraction of its last place when sticky) rounded
\* to 53 bits, ties to even
Round53(Q, sticky, e) ==
    LET L    == Len(Q)
        drop == L - MantissaBits
    IN  IF drop <= 0 THEN [m |-> ShiftLeft(Q, -drop), e |-> e + drop]
        ELSE LET kept == SubSeq(Q, drop + 1, L)
                 half == Q[drop]
                 rest == sticky \/ \E i \in 1..(drop - 1) : Q[i] = 1
                 up   == half = 1 /\ (rest \/ kept[1] = 1)
                 m2   == IF up THEN AddOne(kept) ELSE kept
             IN  IF Len(m2) > MantissaBits
                 THEN [m |-> Tail(m2), e |-> e + drop + 1]
                 ELSE [m |-> m2, e |-> e + drop]

FloatZero == [m |-> <<>>, e |-> 0]

\* how far b is shifted so that its quotient by d has more than 53 bits
ExtraBits(b, d) ==
    LET need == MantissaBits + 1 + Len(NatToBits(d)) - Len(b)
    IN  IF need > 0 THEN need ELSE 0

\* the double nearest to b * 2^e / d
FloatQuot(b, d, e) ==
    LET k  == ExtraBits(b, d)
        dv == DivSmall(ShiftLeft(b, k), d)
    IN  Round53(dv.q, dv.r # 0, e - k)

\* float(Decimal) of c hundredths
FloatOfCents(c) ==
    IF c = 0 THEN FloatZero ELSE FloatQuot(NatToBits(c), 100, 0)

\* x / float(t), t a positive integer
FloatDivInt(x, t) ==
    IF Len(x.m) = 0 THEN FloatZero ELSE FloatQuot(x.m, t, x.e)

\* x * k, k a positive integer
FloatMulInt(x, k) ==
    IF Len(x.m) = 0 THEN FloatZero ELSE Round53(MulSmall(x.m, k), FALSE, x.e)

BitsGE(a, b) ==
    IF Len(a) # Len(b) THEN Len(a) > Len(b)
    ELSE LET diff == {i \in 1..Len(a) : a[i] # b[i]}
         IN  IF diff = {} THEN TRUE
             ELSE LET i == CHOOSE x \in diff : \A y \in diff : y <= x
                  IN  a[i] > b[i]

\* x >= n, n a natural number
FloatGE(x, n) ==
    IF Len(x.m) = 0 THEN 0 >= n
    ELSE IF x.e >= 0 THEN TRUE
    ELSE BitsGE(x.m, ShiftLeft(NatToBits(n), -x.e))

(***************************************************************************)
(* Result: computed grade.                                                 *)
(***************************************************************************)
\* marks offered to the handlers: 4.50, 5.40, ... in steps of 0.90
MarkStep == 90

MarksValues == {450 + MarkStep * k : k \in 0..MaxMarkUnits}

TotalValues == {0, 9, 10}

ExamNames == {"midterm"}

\* Result.calculate_percentage
calculate_percentage(marks, total_marks) ==
    IF total_marks > 0
    THEN FloatMulInt(FloatDivInt(FloatOfCents(marks), total_marks), 100)
    ELSE FloatZero

\* the if/elif chain of Result.save
grade_for(percentage) ==
    IF FloatGE(percentage, 90) THEN "A+"
    ELSE IF FloatGE(percentage, 80) THEN "A"
    ELSE IF FloatGE(percentage, 70) THEN "B"
    ELSE IF FloatGE(percentage, 60) THEN "C"
    ELSE IF FloatGE(percentage, 50) THEN "D"
    ELSE "F"

\* the grade Result.save derives, tabulated over the marks the handlers are offered
derived_grade ==
    [m \in MarksValues, t \in TotalValues |-> grade_for(calculate_percentage(m, t))]

\* Result.save: the instance as it is written to the table
ResultSaveAlways(inst) ==
    [inst EXCEPT !.grade = derived_grade[inst.marks, inst.total_marks]]

ResultSave(inst) ==
    IF inst.grade = ""
    THEN [inst EXCEPT !.grade = derived_grade[inst.marks, inst.total_marks]]
    ELSE inst

Result(student, subject, exam_name, marks, total_marks, grade) ==
    [student |-> student, subject |-> subject, exam_name |-> exam_name,
     marks |-> marks, total_marks |-> total_marks, grade |-> grade]

\* Result.Meta.unique_together as the ModelForm's validate_unique and the
\* table's unique index apply it (no column of it is null here)
ResultUnique(inst) ==
    \A k \in DOMAIN results :
        ~(/\ results[k].student = inst.student
          /\ results[k].subject = inst.subject
          /\ results[k].exam_name = inst.exam_name)

\* MinValueValidator(0) on marks and total_marks
ResultValid(inst) == inst.marks >= 0 /\ inst.total_marks >= 0

(***************************************************************************)
(* Frames.                                                                 *)
(***************************************************************************)
\* everything a request can store
\* the tables of notices, messages, meetings and book issues
desk == <<notices, messages, meetings, issues>>

db == <<today, role, is_staff, results, result_seq, fees, leaves,
        assignments, submissions, requests, attendance, desk>>

not_results == <<today, role, is_staff, fees, leaves, assignments,
                 submissions, requests, attendance, desk>>

(***************************************************************************)
(* Result: the pages result_list and result_create, and the REST endpoint  *)
(* ResultViewSet with ResultSerializer.                                    *)
(***************************************************************************)
\* Result.objects.all()
AllResults == DOMAIN results

\* Result.objects.filter(student=s)
ResultsOf(s) == {k \in DOMAIN results : results[k].student = s}

\* views.result_list (GET)
result_list(u) ==
    /\ resp' = Listing("result_list", u,
                 IF role[u] = "student"
                 THEN IF student_profile(u) # NULL
                      THEN ResultsOf(student_profile(u))
                      ELSE {}
                 ELSE AllResults)
    /\ UNCHANGED db

\* views.result_create; the POST carries the fields of ResultForm
result_create(u, method, student, subject, exam_name, marks, total_marks, grade) ==
    LET inst == Result(student, subject, exam_name, marks, total_marks, grade)
    IN  IF role[u] \notin {"teacher", "admin"} /\ ~is_staff[u]
        THEN /\ resp' = Reply("result_create", u, "denied")
             /\ UNCHANGED db
        ELSE IF method = "POST"
        THEN IF ResultValid(inst) /\ ResultUnique(inst)
             THEN /\ result_seq < MaxResults
                  /\ result_seq' = result_seq + 1
                  /\ results' = Put(results, result_seq + 1, ResultSave(inst))
                  /\ resp' = Resp("result_create", u, "ok", {}, result_seq + 1, "", grade)
                  /\ UNCHANGED not_results
             ELSE /\ resp' = Reply("result_create", u, "invalid")
                  /\ UNCHANGED db
        ELSE /\ resp' = Reply("result_create", u, "form")
             /\ UNCHANGED db

\* ResultViewSet.get_queryset
ResultViewSet_get_queryset_all(u) == AllResults

ResultViewSet_get_queryset(u) ==
    IF role[u] = "student"
    THEN IF student_profile(u) # NULL
         THEN ResultsOf(student_profile(u))
         ELSE {}
    ELSE AllResults

\* ResultViewSet.list: GET /api/results/
ResultViewSet_list(u) ==
    /\ resp' = Listing("ResultViewSet.list", u, ResultViewSet_get_queryset(u))
    /\ UNCHANGED db

\* ResultViewSet.create: POST /api/results/.  ResultSerializer declares
\* student and subject read-only, so the instance is built without them and
\* the insert fails on the NOT NULL column student_id.
ResultViewSet_create(u, exam_name, marks, total_marks, grade) ==
    LET inst  == Result(NULL, NULL, exam_name, marks, total_marks, grade)
        saved == ResultSave(inst)
    IN  IF ~ResultValid(inst)
        THEN /\ resp' = Reply("ResultViewSet.create", u, "invalid")
             /\ UNCHANGED db
        ELSE IF saved.student = NULL
        THEN /\ resp' = Reply("ResultViewSet.create", u, "error")
             /\ UNCHANGED db
        ELSE /\ result_seq < MaxResults
             /\ result_seq' = result_seq + 1
             /\ results' = Put(results, result_seq + 1, saved)
             /\ resp' = Resp("ResultViewSet.create", u, "ok", {}, result_seq + 1, "", grade)
             /\ UNCHANGED not_results

\* ResultViewSet.partial_update: PATCH /api/results/<pk>/ with marks and
\* total_marks, and grade unless it is Absent from the request
ResultViewSet_update(u, pk, marks, total_marks, grade) ==
    IF pk \notin ResultViewSet_get_queryset(u)
    THEN /\ resp' = Reply("ResultViewSet.update", u, "not_found")
         /\ UNCHANGED db
    ELSE LET inst == [results[pk] EXCEPT
                        !.marks = marks,
                        !.total_marks = total_marks,
                        !.grade = IF grade = Absent THEN @ ELSE grade]
         IN  IF ~ResultValid(inst)
             THEN /\ resp' = Reply("ResultViewSet.update", u, "invalid")
                  /\ UNCHANGED db
             ELSE /\ results' = Put(results, pk, ResultSave(inst))
                  /\ resp' = Resp("ResultViewSet.update", u, "ok", {}, pk,
                                  results[pk].grade, grade)
                  /\ UNCHANGED <<result_seq, not_results>>

\* ResultViewSet.destroy: DELETE /api/results/<pk>/
ResultViewSet_destroy(u, pk) ==
    IF pk \notin ResultViewSet_get_queryset(u)
    THEN /\ resp' = Reply("ResultViewSet.destroy", u, "not_found")
         /\ UNCHANGED db
    ELSE /\ results' = Drop(results, pk)
         /\ resp' = Resp("ResultViewSet.destroy", u, "ok", {}, pk, results[pk].grade, "")
         /\ UNCHANGED <<result_seq, not_results>>

(***************************************************************************)
(* Fee: computed payment_status; fees are entered on the admin site        *)
(* (FeeAdmin) and listed by fee_list.                                      *)
(***************************************************************************)
PAYMENT_STATUS_CHOICES == {"pending", "paid", "partial", "overdue"}

Fee(student, amount, due_date, paid_amount, payment_status) ==
    [student |-> student, amount |-> amount, due_date |-> due_date,
     paid_amount |-> paid_amount, payment_status |-> payment_status]

\* Fee.save: the instance as it is written to the table
FeeSaveOverdueFirst(inst) ==
    IF inst.paid_amount >= inst.amount
    THEN [inst EXCEPT !.payment_status = "paid"]
    ELSE IF inst.due_date < today
    THEN [inst EXCEPT !.payment_status = "overdue"]
    ELSE IF inst.paid_amount > 0
    THEN [inst EXCEPT !.payment_status = "partial"]
    ELSE inst

FeeSave(inst) ==
    IF inst.paid_amount >= inst.amount
    THEN [inst EXCEPT !.payment_status = "paid"]
    ELSE IF inst.paid_amount > 0
    THEN [inst EXCEPT !.payment_status = "partial"]
    ELSE IF inst.due_date < today /\ inst.paid_amount = 0
    THEN [inst EXCEPT !.payment_status = "overdue"]
    ELSE inst

not_fees == <<today, role, is_staff, results, result_seq, leaves, assignments,
              submissions, requests, attendance, desk>>

\* FeeAdmin add view (pk = NULL) and change view: the admin site serves
\* staff users only; the form carries every editable field of Fee
FeeAdmin_save(u, pk, student, amount, due_date, paid_amount, payment_status) ==
    LET inst == Fee(student, amount, due_date, paid_amount, payment_status)
        key  == IF pk = NULL THEN Cardinality(DOMAIN fees) + 1 ELSE pk
    IN  IF ~is_staff[u]
        THEN /\ resp' = Reply("FeeAdmin.save", u, "denied")
             /\ UNCHANGED db
        ELSE IF pk # NULL /\ pk \notin DOMAIN fees
        THEN /\ resp' = Reply("FeeAdmin.save", u, "not_found")
             /\ UNCHANGED db
        ELSE /\ pk = NULL => Cardinality(DOMAIN fees) < MaxFees
             /\ fees' = Put(fees, key, FeeSave(inst))
             /\ resp' = Resp("FeeAdmin.save", u, "ok", {}, key, payment_status, payment_status)
             /\ UNCHANGED not_fees

\* Fee.objects.filter(student=s)
FeesOf(s) == {k \in DOMAIN fees : fees[k].student = s}

\* views.fee_list (GET)
fee_list(u) ==
    /\ resp' = Listing("fee_list", u,
                 IF role[u] = "student"
                 THEN IF student_profile(u) # NULL
                      THEN FeesOf(student_profile(u))
                      ELSE {}
                 ELSE DOMAIN fees)
    /\ UNCHANGED db

\* a day passes
Tick ==
    /\ today < MaxDay
    /\ today' = today + 1
    /\ resp' = Reply("", NULL, "")
    /\ UNCHANGED <<role, is_staff, results, result_seq, fees, leaves,
                   assignments, submissions, requests, attendance, desk>>

(***************************************************************************)
(* LeaveApplication: apply_leave, leave_review, leave_application_list.    *)
(***************************************************************************)
LeaveApplication(applicant, status, reviewed_by, reviewed_on, remarks) ==
    [applicant |-> applicant, status |-> status, reviewed_by |-> reviewed_by,
     reviewed_on |-> reviewed_on, remarks |-> remarks]

not_leaves == <<today, role, is_staff, results, result_seq, fees, assignments,
                submissions, requests, attendance, desk>>

\* views.apply_leave; complete: the POST carries start_date, end_date and
\* reason (LeaveApplication.objects.create raises without them)
apply_leave(u, method, complete) ==
    IF method = "POST"
    THEN IF complete
         THEN /\ Cardinality(DOMAIN leaves) < MaxLeaves
              /\ leaves' = Put(leaves, Cardinality(DOMAIN leaves) + 1,
                               LeaveApplication(u, "pending", NULL, NULL, ""))
              /\ resp' = Resp("apply_leave", u, "ok", {},
                              Cardinality(DOMAIN leaves) + 1, "", "")
              /\ UNCHANGED not_leaves
         ELSE /\ resp' = Reply("apply_leave", u, "error")
              /\ UNCHANGED db
    ELSE /\ resp' = Reply("apply_leave", u, "form")
         /\ UNCHANGED db

\* views.leave_review writing the status and the remarks only
leave_review_status_only(u, pk, method, action, remarks) ==
    IF role[u] \notin {"admin", "teacher"}
    THEN /\ resp' = Reply("leave_review", u, "denied")
         /\ UNCHANGED db
    ELSE IF pk \notin DOMAIN leaves
    THEN /\ resp' = Reply("leave_review", u, "not_found")
         /\ UNCHANGED db
    ELSE IF method = "POST" /\ action # Absent
    THEN /\ leaves' = Put(leaves, pk,
                          [leaves[pk] EXCEPT !.status = action,
                                             !.remarks = remarks])
         /\ resp' = Resp("leave_review", u, "ok", {}, pk, leaves[pk].status, action)
         /\ UNCHANGED not_leaves
    ELSE /\ resp' = Resp("leave_review", u, "form", {pk}, pk, leaves[pk].status, "")
         /\ UNCHANGED db

\* views.leave_review without its check of the role
leave_review_any_role(u, pk, method, action, remarks) ==
    IF pk \notin DOMAIN leaves
    THEN /\ resp' = Reply("leave_review", u, "not_found")
         /\ UNCHANGED db
    ELSE IF method = "POST" /\ action # Absent
    THEN /\ leaves' = Put(leaves, pk,
                          [leaves[pk] EXCEPT !.status = action,
                                             !.reviewed_by = u,
                                             !.reviewed_on = today,
                                             !.remarks = remarks])
         /\ resp' = Resp("leave_review", u, "ok", {}, pk, leaves[pk].status, action)
         /\ UNCHANGED not_leaves
    ELSE /\ resp' = Resp("leave_review", u, "form", {pk}, pk, leaves[pk].status, "")
         /\ UNCHANGED db

\* views.leave_review; action = Absent: the POST carries no 'action', the
\* status becomes None and the save fails on the NOT NULL column
leave_review(u, pk, method, action, remarks) ==
    IF role[u] \notin {"admin", "teacher"}
    THEN /\ resp' = Reply("leave_review", u, "denied")
         /\ UNCHANGED db
    ELSE IF pk \notin DOMAIN leaves
    THEN /\ resp' = Reply("leave_review", u, "not_found")
         /\ UNCHANGED db
    ELSE IF method = "POST"
    THEN IF action = Absent
         THEN /\ resp' = Resp("leave_review", u, "error", {}, pk, leaves[pk].status, action)
              /\ UNCHANGED db
         ELSE /\ leaves' = Put(leaves, pk,
                               [leaves[pk] EXCEPT !.status = action,
                                                  !.reviewed_by = u,
                                                  !.reviewed_on = today,
                                                  !.remarks = remarks])
              /\ resp' = Resp("leave_review", u, "ok", {}, pk, leaves[pk].status, action)
              /\ UNCHANGED not_leaves
    ELSE /\ resp' = Resp("leave_review", u, "form", {pk}, pk, leaves[pk].status, "")
         /\ UNCHANGED db

\* views.leave_application_list (GET)
leave_application_list(u) ==
    /\ resp' = Listing("leave_application_list", u,
                 IF role[u] \in {"admin", "teacher"}
                 THEN DOMAIN leaves
                 ELSE {k \in DOMAIN leaves : leaves[k].applicant = u})
    /\ UNCHANGED db

(***************************************************************************)
(* Assignment and Submission: assignment_create, submit_assignment, the    *)
(* REST endpoints AssignmentViewSet and SubmissionViewSet.                 *)
(***************************************************************************)
Assignment(classroom, due_date, uploaded_by) ==
    [classroom |-> classroom, due_date |-> due_date, uploaded_by |-> uploaded_by]

Submission(assignment, student, is_late) ==
    [assignment |-> assignment, student |-> student, is_late |-> is_late]

not_assignments == <<today, role, is_staff, results, result_seq, fees, leaves,
                     submissions, requests, attendance, desk>>

not_submissions == <<today, role, is_staff, results, result_seq, fees, leaves,
                     assignments, attendance, desk>>

\* views.assignment_create; the POST carries the fields of AssignmentForm
assignment_create(u, method, classroom, due_date) ==
    IF role[u] # "teacher" /\ ~is_staff[u]
    THEN /\ resp' = Reply("assignment_create", u, "denied")
         /\ UNCHANGED db
    ELSE IF method = "POST"
    THEN IF role[u] = "teacher" /\ teacher_profile(u) = NULL
         THEN /\ resp' = Reply("assignment_create", u, "error")
              /\ UNCHANGED db
         ELSE /\ Cardinality(DOMAIN assignments) < MaxAssignments
              /\ assignments' =
                    Put(assignments, Cardinality(DOMAIN assignments) + 1,
                        Assignment(classroom, due_date,
                                   IF role[u] = "teacher" THEN teacher_profile(u) ELSE NULL))
              /\ resp' = Resp("assignment_create", u, "ok", {},
                              Cardinality(DOMAIN assignments) + 1, "", "")
              /\ UNCHANGED not_assignments
    ELSE /\ resp' = Reply("assignment_create", u, "form")
         /\ UNCHANGED db

\* Submission.objects.filter(assignment=a, student=s)
SubmissionsFor(a, s) ==
    {k \in DOMAIN submissions :
        submissions[k].assignment = a /\ submissions[k].student = s}

\* Submission.Meta.unique_together = ('assignment', 'student'): the unique
\* index of the table admits the row
SubmissionUniqueOff(inst) == TRUE

SubmissionUnique(inst) == SubmissionsFor(inst.assignment, inst.student) = {}

\* views.submit_assignment up to form.is_valid(): the role check, the two
\* lookups and the check for an existing submission.  A valid POST leaves
\* the request in flight, its insert still to come.
submit_assignment(r, u, assignment_id, method, valid) ==
    /\ r \notin DOMAIN requests
    /\ IF role[u] # "student"
       THEN /\ resp' = Reply("submit_assignment", u, "denied")
            /\ UNCHANGED db
       ELSE IF assignment_id \notin DOMAIN assignments
       THEN /\ resp' = Reply("submit_assignment", u, "not_found")
            /\ UNCHANGED db
       ELSE IF student_profile(u) = NULL
       THEN /\ resp' = Reply("submit_assignment", u, "error")
            /\ UNCHANGED db
       ELSE IF SubmissionsFor(assignment_id, student_profile(u)) # {}
       THEN /\ resp' = Resp("submit_assignment", u, "duplicate",
                            {}, assignment_id, "", "")
            /\ UNCHANGED db
       ELSE IF method = "POST"
       THEN IF valid
            THEN /\ requests' = Put(requests, r,
                                   [user |-> u, assignment |-> assignment_id,
                                    student |-> student_profile(u)])
                 /\ resp' = Resp("submit_assignment", u, "valid", {}, assignment_id, "", "")
                 /\ UNCHANGED <<not_submissions, submissions>>
            ELSE /\ resp' = Reply("submit_assignment", u, "invalid")
                 /\ UNCHANGED db
       ELSE /\ resp' = Reply("submit_assignment", u, "form")
            /\ UNCHANGED db

\* views.submit_assignment from the lateness check to the redirect, with a
\* submission on the due date counted as late
submit_assignment_save_late_on_due_date(r) ==
    /\ r \in DOMAIN requests
    /\ LET q    == requests[r]
           due  == assignments[q.assignment].due_date
           inst == Submission(q.assignment, q.student, due # NULL /\ today >= due)
       IN  IF SubmissionUnique(inst)
           THEN /\ Cardinality(DOMAIN submissions) < MaxSubmissions
                /\ submissions' = Put(submissions, Cardinality(DOMAIN submissions) + 1, inst)
                /\ resp' = Resp("submit_assignment", q.user, "ok", {},
                                Cardinality(DOMAIN submissions) + 1, "", "")
           ELSE /\ submissions' = submissions
                /\ resp' = Resp("submit_assignment", q.user, "error", {}, q.assignment, "", "")
    /\ requests' = Drop(requests, r)
    /\ UNCHANGED not_submissions

\* views.submit_assignment from the lateness check to the redirect: is_late
\* is set and the row is inserted, unless the unique index rejects it
submit_assignment_save(r) ==
    /\ r \in DOMAIN requests
    /\ LET q    == requests[r]
           due  == assignments[q.assignment].due_date
           inst == Submission(q.assignment, q.student, due # NULL /\ today > due)
       IN  IF SubmissionUnique(inst)
           THEN /\ Cardinality(DOMAIN submissions) < MaxSubmissions
                /\ submissions' = Put(submissions, Cardinality(DOMAIN submissions) + 1, inst)
                /\ resp' = Resp("submit_assignment", q.user, "ok", {},
                                Cardinality(DOMAIN submissions) + 1, "", "")
           ELSE /\ submissions' = submissions
                /\ resp' = Resp("submit_assignment", q.user, "error", {}, q.assignment, "", "")
    /\ requests' = Drop(requests, r)
    /\ UNCHANGED not_submissions

\* SubmissionViewSet.get_queryset
SubmissionViewSet_get_queryset(u) ==
    IF role[u] = "student"
    THEN IF student_profile(u) # NULL
         THEN {k \in DOMAIN submissions : submissions[k].student = student_profile(u)}
         ELSE {}
    ELSE DOMAIN submissions

\* SubmissionViewSet.list: GET /api/submissions/
SubmissionViewSet_list(u) ==
    /\ resp' = Listing("SubmissionViewSet.list", u, SubmissionViewSet_get_queryset(u))
    /\ UNCHANGED db

\* SubmissionViewSet.create: POST /api/submissions/; assignment and student
\* are read-only in SubmissionSerializer, so the insert has neither and
\* fails on the NOT NULL columns (valid: the POST carries a file)
SubmissionViewSet_create(u, valid) ==
    /\ resp' = Reply("SubmissionViewSet.create", u,
                     IF valid THEN "error" ELSE "invalid")
    /\ UNCHANGED db

\* AssignmentViewSet.get_queryset
AssignmentViewSet_get_queryset(u) ==
    IF role[u] = "student"
    THEN IF student_profile(u) # NULL
         THEN {k \in DOMAIN assignments :
                  assignments[k].classroom = classroom_of(student_profile(u))}
         ELSE {}
    ELSE IF role[u] = "teacher"
    THEN IF teacher_profile(u) # NULL
         THEN {k \in DOMAIN assignments : assignments[k].uploaded_by = teacher_profile(u)}
         ELSE {}
    ELSE DOMAIN assignments

\* AssignmentViewSet.submissions: GET /api/assignments/<pk>/submissions/
AssignmentViewSet_submissions(u, pk) ==
    /\ IF pk \notin AssignmentViewSet_get_queryset(u)
       THEN resp' = Reply("AssignmentViewSet.submissions", u, "not_found")
       ELSE resp' = Resp("AssignmentViewSet.submissions", u, "ok",
                         {k \in DOMAIN submissions : submissions[k].assignment = pk},
                         pk, "", "")
    /\ UNCHANGED db

\* StudentViewSet.results: GET /api/students/<pk>/results/
StudentViewSet_results(u, pk) ==
    /\ IF pk \notin Students
       THEN resp' = Reply("StudentViewSet.results", u, "not_found")
       ELSE resp' = Resp("StudentViewSet.results", u, "ok", ResultsOf(pk), pk, "", "")
    /\ UNCHANGED db

\* views.student_detail (GET)
student_detail(u, pk) ==
    /\ IF pk \notin Students
       THEN resp' = Reply("student_detail", u, "not_found")
       ELSE resp' = Resp("student_detail", u, "ok", ResultsOf(pk), pk, "", "")
    /\ UNCHANGED db

(***************************************************************************)
(* Attendance: mark_attendance.                                            *)
(***************************************************************************)
Attendance(student, subject, date, status, marked_by) ==
    [student |-> student, subject |-> subject, date |-> date,
     status |-> status, marked_by |-> marked_by]

not_attendance == <<today, role, is_staff, results, result_seq, fees, leaves,
                    assignments, submissions, requests, desk>>

\* Attendance.Meta.unique_together = ('student', 'date', 'subject') as it is
\* enforced: AttendanceForm's validate_unique leaves out a check one of
\* whose values is None, and the unique index holds null subjects distinct
AttendanceUnique(inst) ==
    \/ inst.subject = NULL
    \/ \A k \in DOMAIN attendance :
          ~(/\ attendance[k].student = inst.student
            /\ attendance[k].date = inst.date
            /\ attendance[k].subject = inst.subject)

\* views.mark_attendance; the POST carries the fields of AttendanceForm
mark_attendance(u, method, student, subject, date, status) ==
    IF role[u] # "teacher" /\ ~is_staff[u]
    THEN /\ resp' = Reply("mark_attendance", u, "denied")
         /\ UNCHANGED db
    ELSE IF method = "POST"
    THEN LET inst == Attendance(student, subject, date, status,
                                IF role[u] = "teacher" THEN teacher_profile(u) ELSE NULL)
         IN  IF ~AttendanceUnique(inst)
             THEN /\ resp' = Reply("mark_attendance", u, "invalid")
                  /\ UNCHANGED db
             ELSE IF role[u] = "teacher" /\ teacher_profile(u) = NULL
             THEN /\ resp' = Reply("mark_attendance", u, "error")
                  /\ UNCHANGED db
             ELSE /\ Cardinality(DOMAIN attendance) < MaxAttendance
                  /\ attendance' = Put(attendance, Cardinality(DOMAIN attendance) + 1, inst)
                  /\ resp' = Resp("mark_attendance", u, "ok", {},
                                  Cardinality(DOMAIN attendance) + 1, "", "")
                  /\ UNCHANGED not_attendance
    ELSE /\ resp' = Reply("mark_attendance", u, "form")
         /\ UNCHANGED db

(***************************************************************************)
(* Users: the REST endpoint UserViewSet with UserSerializer.               *)
(***************************************************************************)
\* UserViewSet.partial_update: PATCH /api/users/<pk>/ {role: new_role};
\* role is a writable field of UserSerializer, validated against its choices
UserViewSet_update(u, pk, new_role) ==
    IF pk \notin Users
    THEN /\ resp' = Reply("UserViewSet.update", u, "not_found")
         /\ UNCHANGED db
    ELSE IF new_role \notin ROLE_CHOICES
    THEN /\ resp' = Reply("UserViewSet.update", u, "invalid")
         /\ UNCHANGED db
    ELSE /\ role' = [role EXCEPT ![pk] = new_role]
         /\ resp' = Resp("UserViewSet.update", u, "ok", {}, pk, role[pk], new_role)
         /\ UNCHANGED <<today, is_staff, results, result_seq, fees, leaves,
                        assignments, submissions, requests, attendance, desk>>

\* UserViewSet.list: GET /api/users/
UserViewSet_list(u) ==
    /\ resp' = Listing("UserViewSet.list", u, Users)
    /\ UNCHANGED db

(***************************************************************************)
(* Meeting: meeting_create and meeting_detail.                             *)
(***************************************************************************)
\* a null text column (meeting_notes, action_items: null=True, no default)
NullText == "<null>"

Meeting(organized_by, participants, status, meeting_notes, action_items) ==
    [organized_by |-> organized_by, participants |-> participants,
     status |-> status, meeting_notes |-> meeting_notes,
     action_items |-> action_items]

not_meetings == <<today, role, is_staff, results, result_seq, fees, leaves,
                  assignments, submissions, requests, attendance, notices,
                  messages, issues>>

\* views.meeting_create; complete: the POST carries title, meeting_type,
\* topic, description, date, times and location (Meeting.objects.create
\* raises without them)
meeting_create(u, method, complete, participant_ids) ==
    IF ~(role[u] = "admin" \/ is_staff[u])
    THEN /\ resp' = Reply("meeting_create", u, "denied")
         /\ UNCHANGED db
    ELSE IF method = "POST"
    THEN IF complete
         THEN /\ Cardinality(DOMAIN meetings) < MaxMeetings
              /\ meetings' = Put(meetings, Cardinality(DOMAIN meetings) + 1,
                                 Meeting(u, participant_ids \cap Users,
                                         "scheduled", NullText, NullText))
              /\ resp' = Resp("meeting_create", u, "ok", {},
                              Cardinality(DOMAIN meetings) + 1, "", "")
              /\ UNCHANGED not_meetings
         ELSE /\ resp' = Reply("meeting_create", u, "error")
              /\ UNCHANGED db
    ELSE /\ resp' = Reply("meeting_create", u, "form")
         /\ UNCHANGED db

\* views.meeting_detail with access given to every admin as well
meeting_detail_admin_sees_all(u, pk, method, meeting_notes, action_items, status) ==
    IF pk \notin DOMAIN meetings
    THEN /\ resp' = Reply("meeting_detail", u, "not_found")
         /\ UNCHANGED db
    ELSE IF ~(\/ meetings[pk].organized_by = u
              \/ u \in meetings[pk].participants
              \/ role[u] = "admin")
    THEN /\ resp' = Resp("meeting_detail", u, "denied", {}, pk, meetings[pk].status, "")
         /\ UNCHANGED db
    ELSE IF method = "POST" /\ meetings[pk].organized_by = u
    THEN /\ meetings' = Put(meetings, pk,
                            [meetings[pk] EXCEPT
                                !.meeting_notes = meeting_notes,
                                !.action_items = action_items,
                                !.status = IF status = Absent THEN @ ELSE status])
         /\ resp' = Resp("meeting_detail", u, "ok", {}, pk, meetings[pk].status, status)
         /\ UNCHANGED not_meetings
    ELSE /\ resp' = Resp("meeting_detail", u, "shown", {pk}, pk, meetings[pk].status, "")
         /\ UNCHANGED db

\* views.meeting_detail with the update open to every user who has access
meeting_detail_any_member(u, pk, method, meeting_notes, action_items, status) ==
    IF pk \notin DOMAIN meetings
    THEN /\ resp' = Reply("meeting_detail", u, "not_found")
         /\ UNCHANGED db
    ELSE IF ~(meetings[pk].organized_by = u \/ u \in meetings[pk].participants)
    THEN /\ resp' = Resp("meeting_detail", u, "denied", {}, pk, meetings[pk].status, "")
         /\ UNCHANGED db
    ELSE IF method = "POST"
    THEN /\ meetings' = Put(meetings, pk,
                            [meetings[pk] EXCEPT
                                !.meeting_notes = meeting_notes,
                                !.action_items = action_items,
                                !.status = IF status = Absent THEN @ ELSE status])
         /\ resp' = Resp("meeting_detail", u, "ok", {}, pk, meetings[pk].status, status)
         /\ UNCHANGED not_meetings
    ELSE /\ resp' = Resp("meeting_detail", u, "shown", {pk}, pk, meetings[pk].status, "")
         /\ UNCHANGED db

\* views.meeting_detail; status = Absent: the POST carries no 'status' and
\* the meeting keeps the one it has.  "shown": the page of the meeting
meeting_detail(u, pk, method, meeting_notes, action_items, status) ==
    IF pk \notin DOMAIN meetings
    THEN /\ resp' = Reply("meeting_detail", u, "not_found")
         /\ UNCHANGED db
    ELSE IF ~(meetings[pk].organized_by = u \/ u \in meetings[pk].participants)
    THEN /\ resp' = Resp("meeting_detail", u, "denied", {}, pk, meetings[pk].status, "")
         /\ UNCHANGED db
    ELSE IF method = "POST" /\ meetings[pk].organized_by = u
    THEN /\ meetings' = Put(meetings, pk,
                            [meetings[pk] EXCEPT
                                !.meeting_notes = meeting_notes,
                                !.action_items = action_items,
                                !.status = IF status = Absent THEN @ ELSE status])
         /\ resp' = Resp("meeting_detail", u, "ok", {}, pk, meetings[pk].status, status)
         /\ UNCHANGED not_meetings
    ELSE /\ resp' = Resp("meeting_detail", u, "shown", {pk}, pk, meetings[pk].status, "")
         /\ UNCHANGED db

(***************************************************************************)
(* Message: send_message, message_detail, inbox.                           *)
(***************************************************************************)
Message(sender, recipient, is_read, read_at) ==
    [sender |-> sender, recipient |-> recipient, is_read |-> is_read,
     read_at |-> read_at]

not_messages == <<today, role, is_staff, results, result_seq, fees, leaves,
                  assignments, submissions, requests, attendance, notices,
                  meetings, issues>>

\* Message.mark_as_read with the test of is_read left out
mark_as_read_every_time(message) ==
    [message EXCEPT !.is_read = TRUE, !.read_at = today]

\* Message.mark_as_read: the row as it is stored afterwards
mark_as_read(message) ==
    IF ~message.is_read
    THEN [message EXCEPT !.is_read = TRUE, !.read_at = today]
    ELSE message

\* views.send_message; complete: the POST carries subject and body
\* (Message.objects.create raises without them)
send_message(u, method, recipient_id, complete) ==
    IF method = "POST"
    THEN IF recipient_id \notin Users
         THEN /\ resp' = Reply("send_message", u, "not_found")
              /\ UNCHANGED db
         ELSE IF ~complete
         THEN /\ resp' = Reply("send_message", u, "error")
              /\ UNCHANGED db
         ELSE /\ Cardinality(DOMAIN messages) < MaxMessages
              /\ messages' = Put(messages, Cardinality(DOMAIN messages) + 1,
                                 Message(u, recipient_id, FALSE, NULL))
              /\ resp' = Resp("send_message", u, "ok", {},
                              Cardinality(DOMAIN messages) + 1, "", "")
              /\ UNCHANGED not_messages
    ELSE /\ resp' = Listing("send_message", u, Users \ {u})
         /\ UNCHANGED db

\* views.message_detail looking the message up by pk alone
message_detail_any_user(u, pk) ==
    IF pk \notin DOMAIN messages
    THEN /\ resp' = Resp("message_detail", u, "not_found", {}, pk, "", "")
         /\ UNCHANGED db
    ELSE /\ messages' = Put(messages, pk, mark_as_read(messages[pk]))
         /\ resp' = Resp("message_detail", u, "ok", {pk}, pk, "", "")
         /\ UNCHANGED not_messages

\* views.message_detail (GET)
message_detail(u, pk) ==
    IF pk \notin DOMAIN messages \/ messages[pk].recipient # u
    THEN /\ resp' = Resp("message_detail", u, "not_found", {}, pk, "", "")
         /\ UNCHANGED db
    ELSE /\ messages' = Put(messages, pk, mark_as_read(messages[pk]))
         /\ resp' = Resp("message_detail", u, "ok", {pk}, pk, "", "")
         /\ UNCHANGED not_messages

\* views.inbox (GET)
inbox(u) ==
    /\ resp' = Listing("inbox", u,
                 {k \in DOMAIN messages : messages[k].recipient = u})
    /\ UNCHANGED db

(***************************************************************************)
(* Notice: notice_list, notice_create, the notices of the dashboard, and   *)
(* the REST endpoint NoticeViewSet with NoticeSerializer.                  *)
(***************************************************************************)
TARGET_CHOICES == {"all", "teacher", "student"}

Notice(created_by, target_role, publish_date, expiry_date, is_active) ==
    [created_by |-> created_by, target_role |-> target_role,
     publish_date |-> publish_date, expiry_date |-> expiry_date,
     is_active |-> is_active]

not_notices == <<today, role, is_staff, results, result_seq, fees, leaves,
                 assignments, submissions, requests, attendance, messages,
                 meetings, issues>>

\* Notice.objects.filter(Q(target_role='all') | Q(target_role=r),
\*                       is_active=True, publish_date__lte=timezone.now())
NoticesPublishedFor(r) ==
    {k \in DOMAIN notices :
        /\ notices[k].target_role \in {"all", r}
        /\ notices[k].is_active
        /\ notices[k].publish_date <= today}

\* .order_by('-publish_date')[:5]
FirstFive(rows) ==
    IF Cardinality(rows) <= 5
    THEN rows
    ELSE CHOOSE S \in SUBSET rows :
            /\ Cardinality(S) = 5
            /\ \A a \in S, b \in rows \ S :
                  notices[a].publish_date >= notices[b].publish_date

\* views.notice_list (GET)
notice_list(u) ==
    /\ resp' = Listing("notice_list", u, NoticesPublishedFor(role[u]))
    /\ UNCHANGED db

\* views.dashboard (GET); rows: the 'recent_notices' of the context
dashboard(u) ==
    /\ resp' = Listing("dashboard", u,
                 IF role[u] = "student"
                 THEN IF student_profile(u) # NULL
                      THEN FirstFive(NoticesPublishedFor("student"))
                      ELSE {}
                 ELSE IF role[u] = "teacher"
                 THEN IF teacher_profile(u) # NULL
                      THEN FirstFive(NoticesPublishedFor("teacher"))
                      ELSE {}
                 ELSE IF role[u] = "admin" \/ is_staff[u]
                 THEN FirstFive({k \in DOMAIN notices : notices[k].is_active})
                 ELSE {})
    /\ UNCHANGED db

\* views.notice_create; the POST carries the fields of NoticeForm
notice_create(u, method, target_role, publish_date, expiry_date, is_active) ==
    IF role[u] \notin {"admin", "teacher"} /\ ~is_staff[u]
    THEN /\ resp' = Reply("notice_create", u, "denied")
         /\ UNCHANGED db
    ELSE IF method = "POST"
    THEN IF target_role \in TARGET_CHOICES
         THEN /\ Cardinality(DOMAIN notices) < MaxNotices
              /\ notices' = Put(notices, Cardinality(DOMAIN notices) + 1,
                                Notice(u, target_role, publish_date,
                                       expiry_date, is_active))
              /\ resp' = Resp("notice_create", u, "ok", {},
                              Cardinality(DOMAIN notices) + 1, "", "")
              /\ UNCHANGED not_notices
         ELSE /\ resp' = Reply("notice_create", u, "invalid")
              /\ UNCHANGED db
    ELSE /\ resp' = Reply("notice_create", u, "form")
         /\ UNCHANGED db

\* NoticeViewSet.get_queryset without the filter on target_role
NoticeViewSet_get_queryset_any_role(u) ==
    {k \in DOMAIN notices : notices[k].is_active}

\* NoticeViewSet.get_queryset
NoticeViewSet_get_queryset(u) ==
    {k \in DOMAIN notices :
        /\ notices[k].target_role \in {"all", role[u]}
        /\ notices[k].is_active}

\* NoticeViewSet.list: GET /api/notices/
NoticeViewSet_list(u) ==
    /\ resp' = Listing("NoticeViewSet.list", u, NoticeViewSet_get_queryset(u))
    /\ UNCHANGED db

\* NoticeViewSet.create: POST /api/notices/; created_by is read-only in
\* NoticeSerializer and stays null
NoticeViewSet_create(u, target_role, publish_date, expiry_date, is_active) ==
    IF target_role \in TARGET_CHOICES
    THEN /\ Cardinality(DOMAIN notices) < MaxNotices
         /\ notices' = Put(notices, Cardinality(DOMAIN notices) + 1,
                           Notice(NULL, target_role, publish_date,
                                  expiry_date, is_active))
         /\ resp' = Resp("NoticeViewSet.create", u, "ok", {},
                         Cardinality(DOMAIN notices) + 1, "", "")
         /\ UNCHANGED not_notices
    ELSE /\ resp' = Reply("NoticeViewSet.create", u, "invalid")
         /\ UNCHANGED db

(***************************************************************************)
(* Attendance: attendance_list and the REST endpoint AttendanceViewSet.    *)
(***************************************************************************)
\* a date as the query string carries it
DateText == [d \in 0..MaxDay |-> ToString(d)]

\* DateField.to_python of a well-formed date string
ParseDate(text) == CHOOSE d \in 0..MaxDay : DateText[d] = text

\* views.attendance_list (GET); date_filter: request.GET.get('date', ''),
\* a string that is no date makes the filter raise
attendance_list(u, date_filter) ==
    /\ IF date_filter = ""
       THEN resp' = Listing("attendance_list", u, DOMAIN attendance)
       ELSE IF \A d \in 0..MaxDay : DateText[d] # date_filter
       THEN resp' = Resp("attendance_list", u, "error", {}, NULL, "", date_filter)
       ELSE resp' = Resp("attendance_list", u, "ok",
                         {k \in DOMAIN attendance :
                             attendance[k].date = ParseDate(date_filter)},
                         NULL, "", date_filter)
    /\ UNCHANGED db

\* AttendanceViewSet.get_queryset
AttendanceViewSet_get_queryset(u) ==
    IF role[u] = "student"
    THEN IF student_profile(u) # NULL
         THEN {k \in DOMAIN attendance : attendance[k].student = student_profile(u)}
         ELSE {}
    ELSE DOMAIN attendance

\* AttendanceViewSet.list: GET /api/attendance/
AttendanceViewSet_list(u) ==
    /\ resp' = Listing("AttendanceViewSet.list", u, AttendanceViewSet_get_queryset(u))
    /\ UNCHANGED db

(***************************************************************************)
(* Listings scoped by profile: assignment_list, exam_list, timetable_view. *)
(* No handler writes an Exam or a Timetable entry: the rows are part of    *)
(* the population.                                                          *)
(***************************************************************************)
\* Exam rows: classroom, is_published, created_by (a Teacher)
Exams ==
    <<[classroom |-> 1, is_published |-> TRUE, created_by |-> 1],
      [classroom |-> 1, is_published |-> FALSE, created_by |-> 1]>>

\* Timetable rows: classroom, teacher
Timetables == <<[classroom |-> 1, teacher |-> 1]>>

\* views.assignment_list (GET); the teacher branch reads
\* request.user.teacher_profile outside any try
assignment_list(u) ==
    /\ IF role[u] = "student"
       THEN resp' = Listing("assignment_list", u,
                       IF student_profile(u) # NULL
                       THEN {k \in DOMAIN assignments :
                                assignments[k].classroom = classroom_of(student_profile(u))}
                       ELSE {})
       ELSE IF role[u] = "teacher"
       THEN IF teacher_profile(u) = NULL
            THEN resp' = Reply("assignment_list", u, "error")
            ELSE resp' = Listing("assignment_list", u,
                            {k \in DOMAIN assignments :
                                assignments[k].uploaded_by = teacher_profile(u)})
       ELSE resp' = Listing("assignment_list", u, DOMAIN assignments)
    /\ UNCHANGED db

\* views.exam_list (GET)
exam_list(u) ==
    /\ resp' = Listing("exam_list", u,
                 IF role[u] = "student"
                 THEN IF student_profile(u) # NULL
                      THEN {k \in DOMAIN Exams :
                               /\ Exams[k].classroom = classroom_of(student_profile(u))
                               /\ Exams[k].is_published}
                      ELSE {}
                 ELSE IF role[u] = "teacher"
                 THEN IF teacher_profile(u) # NULL
                      THEN {k \in DOMAIN Exams : Exams[k].created_by = teacher_profile(u)}
                      ELSE {}
                 ELSE DOMAIN Exams)
    /\ UNCHANGED db

\* views.timetable_view (GET); rows: the 'timetable' of the context
timetable_view(u) ==
    /\ resp' = Listing("timetable_view", u,
                 IF role[u] = "student"
                 THEN IF student_profile(u) # NULL
                      THEN {k \in DOMAIN Timetables :
                               Timetables[k].classroom = classroom_of(student_profile(u))}
                      ELSE {}
                 ELSE IF role[u] = "teacher"
                 THEN IF teacher_profile(u) # NULL
                      THEN {k \in DOMAIN Timetables :
                               Timetables[k].teacher = teacher_profile(u)}
                      ELSE {}
                 ELSE DOMAIN Timetables)
    /\ UNCHANGED db

(***************************************************************************)
(* BookIssue: the admin form BookIssueAdmin and BookIssue.calculate_fine.  *)
(* fine_amount, a Decimal(…, 2), is counted in hundredths.                 *)
(***************************************************************************)
BookIssue(student, due_date, return_date, fine_amount, is_returned) ==
    [student |-> student, due_date |-> due_date, return_date |-> return_date,
     fine_amount |-> fine_amount, is_returned |-> is_returned]

not_issues == <<today, role, is_staff, results, result_seq, fees, leaves,
                assignments, submissions, requests, attendance, notices,
                messages, meetings>>

\* the fine per day, in currency units
FinePerDay == 5

\* BookIssueAdmin add view: the admin site serves staff users only; the
\* form carries every editable field of BookIssue
BookIssueAdmin_save(u, student, due_date, return_date, fine_amount, is_returned) ==
    IF ~is_staff[u]
    THEN /\ resp' = Reply("BookIssueAdmin.save", u, "denied")
         /\ UNCHANGED db
    ELSE /\ Cardinality(DOMAIN issues) < MaxIssues
         /\ issues' = Put(issues, Cardinality(DOMAIN issues) + 1,
                          BookIssue(student, due_date, return_date,
                                    fine_amount, is_returned))
         /\ resp' = Resp("BookIssueAdmin.save", u, "ok", {},
                         Cardinality(DOMAIN issues) + 1, "", "")
         /\ UNCHANGED not_issues

\* BookIssue.calculate_fine storing the fine of an unreturned book as well
calculate_fine_persist_unreturned(inst) ==
    IF inst.return_date # NULL /\ inst.return_date > inst.due_date
    THEN [value |-> 0,
          saved |-> [inst EXCEPT !.fine_amount =
                        (inst.return_date - inst.due_date) * FinePerDay * 100]]
    ELSE IF ~inst.is_returned /\ today > inst.due_date
    THEN [value |-> (today - inst.due_date) * FinePerDay,
          saved |-> [inst EXCEPT !.fine_amount =
                        (today - inst.due_date) * FinePerDay * 100]]
    ELSE [value |-> 0, saved |-> inst]

\* BookIssue.calculate_fine: the value it returns and the row as stored
\* afterwards.  The first branch assigns fine_amount, saves, and falls
\* through to the final return 0
calculate_fine(inst) ==
    IF inst.return_date # NULL /\ inst.return_date > inst.due_date
    THEN [value |-> 0,
          saved |-> [inst EXCEPT !.fine_amount =
                        (inst.return_date - inst.due_date) * FinePerDay * 100]]
    ELSE IF ~inst.is_returned /\ today > inst.due_date
    THEN [value |-> (today - inst.due_date) * FinePerDay, saved |-> inst]
    ELSE [value |-> 0, saved |-> inst]

\* a call of calculate_fine on the BookIssue pk; given: the value returned
BookIssue_calculate_fine(pk) ==
    /\ pk \in DOMAIN issues
    /\ issues' = Put(issues, pk, calculate_fine(issues[pk]).saved)
    /\ resp' = Resp("BookIssue.calculate_fine", NULL, "ok", {}, pk,
                    issues[pk].fine_amount, calculate_fine(issues[pk]).value)
    /\ UNCHANGED not_issues

(***************************************************************************)
(* Initial state: the population above and empty tables.                   *)
(***************************************************************************)
Init ==
    /\ today = 1
    /\ role = InitRole
    /\ is_staff = InitStaff
    /\ results = EmptyTable
    /\ result_seq = 0
    /\ fees = EmptyTable
    /\ leaves = EmptyTable
    /\ assignments = EmptyTable
    /\ submissions = EmptyTable
    /\ requests = EmptyTable
    /\ attendance = EmptyTable
    /\ notices = EmptyTable
    /\ messages = EmptyTable
    /\ meetings = EmptyTable
    /\ issues = EmptyTable
    /\ resp = Reply("", NULL, "")

(***************************************************************************)
(* Results: who writes them and what grade they carry.                     *)
(***************************************************************************)
Methods == {"GET", "POST"}

GradeInputs == {"", "B"}

ResultKeys == 1..MaxResults

\* the marks and totals offered where the grade is not what is examined
FewMarks == {810, 900}

FewTotals == {9, 10}

NextResult ==
    \/ \E u \in Users : result_list(u)
    \/ \E u \in Users : ResultViewSet_list(u)
    \/ \E u \in Users, method \in Methods, s \in Students, sub \in Subjects,
          x \in ExamNames, m \in FewMarks, t \in FewTotals, g \in GradeInputs :
          result_create(u, method, s, sub, x, m, t, g)
    \/ \E u \in Users, x \in ExamNames, m \in FewMarks, t \in FewTotals,
          g \in GradeInputs :
          ResultViewSet_create(u, x, m, t, g)
    \/ \E u \in Users, pk \in ResultKeys, m \in FewMarks, t \in FewTotals,
          g \in GradeInputs \cup {Absent} :
          ResultViewSet_update(u, pk, m, t, g)
    \/ \E u \in Users, pk \in ResultKeys : ResultViewSet_destroy(u, pk)

SpecResult == Init /\ [][NextResult]_vars

\* the users who may write results, writing one student's result over the
\* whole range of marks
Graders == {u \in Users : InitRole[u] \in {"admin", "teacher"}}

NextGrade ==
    \/ \E u \in Graders, m \in MarksValues, t \in TotalValues, g \in GradeInputs :
          result_create(u, "POST", 1, 1, "midterm", m, t, g)
    \/ \E u \in Graders, pk \in ResultKeys, m \in MarksValues, t \in TotalValues,
          g \in GradeInputs \cup {Absent} :
          ResultViewSet_update(u, pk, m, t, g)
    \/ \E u \in Graders, pk \in ResultKeys : ResultViewSet_destroy(u, pk)

SpecGrade == Init /\ [][NextGrade]_vars

\* C3: a Result row is created, modified or deleted only by a request of a
\* user whose role is teacher or admin; a student's request changes no Result.
C3_ResultWrittenOnlyByTeacherOrAdmin ==
    [][results' # results => role[resp'.user] \in {"teacher", "admin"}]_vars

\* the bucket of marks / total_marks * 100 in exact arithmetic (marks in
\* hundredths): the percentage is at least b iff marks >= b * total_marks
BucketOf(marks, total_marks) ==
    LET AtLeast(b) == total_marks > 0 /\ marks >= b * total_marks
    IN  IF AtLeast(90) THEN "A+"
        ELSE IF AtLeast(80) THEN "A"
        ELSE IF AtLeast(70) THEN "B"
        ELSE IF AtLeast(60) THEN "C"
        ELSE IF AtLeast(50) THEN "D"
        ELSE "F"

\* the last request saved a Result whose grade was not set
SavedWithoutGrade ==
    /\ resp.op \in {"result_create", "ResultViewSet.update"}
    /\ resp.outcome = "ok"
    /\ resp.given = ""

\* C6: a Result saved with no grade set stores the bucket of its percentage,
\* each boundary 90, 80, 70, 60, 50 falling in the higher bucket.
C6_GradeIsBucketOfPercentage ==
    SavedWithoutGrade =>
        results[resp.pk].grade =
            BucketOf(results[resp.pk].marks, results[resp.pk].total_marks)

\* the last request saved an existing Result again, changing marks and
\* total_marks only
SavedAgain ==
    /\ resp.op = "ResultViewSet.update"
    /\ resp.outcome = "ok"
    /\ resp.given = Absent
    /\ resp.old # ""

Amounts == 1..MaxAmount

Payments == 0..MaxAmount

Days == 0..MaxDay

FeeKeys == 1..MaxFees

NextFee ==
    \/ \E u \in Users, pk \in FeeKeys \cup {NULL}, a \in Amounts, d \in Days,
          p \in Payments, st \in PAYMENT_STATUS_CHOICES :
          FeeAdmin_save(u, pk, 1, a, d, p, st)
    \/ \E u \in Users : fee_list(u)
    \/ Tick

SpecFee == Init /\ [][NextFee]_vars

\* the last request saved a Fee
FeeSaved == resp.op = "FeeAdmin.save" /\ resp.outcome = "ok"

\* C5: after a Fee save, payment_status is 'paid' if paid_amount >= amount,
\* otherwise 'partial' if paid_amount > 0, otherwise 'overdue' if paid_amount
\* = 0 and due_date < today, otherwise the value it had before the save; a
\* part-paid Fee past its due date is 'partial', not 'overdue'.
C5_PaymentStatusAfterSave ==
    FeeSaved =>
        LET f == fees[resp.pk]
        IN  /\ f.paid_amount >= f.amount => f.payment_status = "paid"
            /\ (f.paid_amount < f.amount /\ f.paid_amount > 0)
                   => f.payment_status = "partial"
            /\ (f.paid_amount < f.amount /\ f.paid_amount = 0 /\ f.due_date < today)
                   => f.payment_status = "overdue"
            /\ (f.paid_amount < f.amount /\ f.paid_amount <= 0
                    /\ ~(f.paid_amount = 0 /\ f.due_date < today))
                   => f.payment_status = resp.old
            /\ (0 < f.paid_amount /\ f.paid_amount < f.amount /\ f.due_date < today)
                   => f.payment_status = "partial"

\* C5 witness: a part-paid Fee past its due date was saved and is 'partial'
C5_Witness ==
    /\ FeeSaved
    /\ 0 < fees[resp.pk].paid_amount
    /\ fees[resp.pk].paid_amount < fees[resp.pk].amount
    /\ fees[resp.pk].due_date < today
    /\ fees[resp.pk].payment_status = "partial"

(***************************************************************************)
(* Listings: what each user is handed.                                     *)
(***************************************************************************)
NextListing ==
    \/ \E u \in Users, method \in Methods, s \in Students :
          result_create(u, method, s, 1, "midterm", 900, 10, "")
    \/ \E u \in Users, s \in Students :
          FeeAdmin_save(u, NULL, s, 1, 1, 0, "pending")
    \/ \E u \in {3, 4}, method \in Methods : apply_leave(u, method, TRUE)
    \/ \E u \in Users, method \in Methods : assignment_create(u, method, 1, NULL)
    \/ \E u \in Users, a \in 1..MaxAssignments, method \in Methods :
          submit_assignment(1, u, a, method, TRUE)
    \/ submit_assignment_save(1)
    \/ \E u \in Users : result_list(u)
    \/ \E u \in Users : ResultViewSet_list(u)
    \/ \E u \in Users : fee_list(u)
    \/ \E u \in Users : leave_application_list(u)
    \/ \E u \in Users : SubmissionViewSet_list(u)

SpecListing == Init /\ [][NextListing]_vars

\* the last request was answered with rows to a user whose role is student
StudentServed ==
    /\ resp.outcome = "ok"
    /\ resp.user \in Users
    /\ role[resp.user] = "student"

\* C1: result_list, fee_list, leave_application_list and the REST lists of
\* results and submissions hand a student-role user only rows whose student
\* (or applicant) is that user.
C1_ListsReturnOwnRowsOnly ==
    StudentServed =>
        /\ resp.op \in {"result_list", "ResultViewSet.list"} =>
              \A k \in resp.rows : results[k].student = student_profile(resp.user)
        /\ resp.op = "fee_list" =>
              \A k \in resp.rows : fees[k].student = student_profile(resp.user)
        /\ resp.op = "leave_application_list" =>
              \A k \in resp.rows : leaves[k].applicant = resp.user
        /\ resp.op = "SubmissionViewSet.list" =>
              \A k \in resp.rows : submissions[k].student = student_profile(resp.user)

\* C1 witness: a student listed the results over REST, got their own row and
\* not the row another student has
C1_Witness ==
    /\ StudentServed
    /\ resp.op = "ResultViewSet.list"
    /\ resp.rows # {}
    /\ DOMAIN results \ resp.rows # {}

(***************************************************************************)
(* Nested and detail reads.                                                *)
(***************************************************************************)
NextNested ==
    \/ \E u \in Users, method \in Methods, s \in Students :
          result_create(u, method, s, 1, "midterm", 900, 10, "")
    \/ \E u \in Users, method \in Methods : assignment_create(u, method, 1, NULL)
    \/ \E u \in Users, a \in 1..MaxAssignments, method \in Methods :
          submit_assignment(1, u, a, method, TRUE)
    \/ submit_assignment_save(1)
    \/ \E u \in Users, pk \in Students : StudentViewSet_results(u, pk)
    \/ \E u \in Users, pk \in Students : student_detail(u, pk)
    \/ \E u \in Users, pk \in 1..MaxAssignments : AssignmentViewSet_submissions(u, pk)

SpecNested == Init /\ [][NextNested]_vars

\* C2: 'results for a student', student_detail and 'submissions for an
\* assignment' hand a student-role user only that user's own rows.
C2_NestedReadsReturnOwnRowsOnly ==
    StudentServed =>
        /\ resp.op \in {"StudentViewSet.results", "student_detail"} =>
              \A k \in resp.rows : results[k].student = student_profile(resp.user)
        /\ resp.op = "AssignmentViewSet.submissions" =>
              \A k \in resp.rows : submissions[k].student = student_profile(resp.user)

(***************************************************************************)
(* Users: roles.                                                           *)
(***************************************************************************)
NextUsers ==
    \/ \E u \in Users, pk \in Users, r \in ROLE_CHOICES \cup {"principal"} :
          UserViewSet_update(u, pk, r)
    \/ \E u \in Users : UserViewSet_list(u)

SpecUsers == Init /\ [][NextUsers]_vars

\* C4: every user keeps the role it was created with.
C4_RoleNeverChanges == \A u \in Users : role[u] = InitRole[u]

(***************************************************************************)
(* Submissions: one per assignment and student.                            *)
(***************************************************************************)
NextSubmit ==
    \/ \E u \in Users, method \in Methods : assignment_create(u, method, 1, NULL)
    \/ \E r \in 1..MaxRequests, u \in Users, a \in 1..MaxAssignments,
          method \in Methods, valid \in BOOLEAN :
          submit_assignment(r, u, a, method, valid)
    \/ \E r \in 1..MaxRequests : submit_assignment_save(r)

SpecSubmit == Init /\ [][NextSubmit]_vars

\* C8: there is at most one Submission per (assignment, student), and a
\* submit request stores a Submission only for a pair that has none.
C8_OneSubmissionPerPair ==
    /\ [](\A j, k \in DOMAIN submissions :
             (/\ submissions[j].assignment = submissions[k].assignment
              /\ submissions[j].student = submissions[k].student) => j = k)
    /\ [][\A k \in DOMAIN submissions' \ DOMAIN submissions :
             SubmissionsFor(submissions'[k].assignment, submissions'[k].student) = {}]_vars

\* C8 witness: a student who has a Submission for the assignment asked to
\* submit again and was turned away
C8_Witness ==
    /\ resp.op = "submit_assignment"
    /\ resp.outcome = "duplicate"
    /\ SubmissionsFor(resp.pk, student_profile(resp.user)) # {}

(***************************************************************************)
(* Attendance: one row per student, date and subject.                      *)
(***************************************************************************)
AttendanceStatus == {"present", "absent"}

NextAttendance ==
    \E u \in Users, method \in Methods, sub \in Subjects \cup {NULL},
       d \in {0, 1}, st \in AttendanceStatus :
       mark_attendance(u, method, 1, sub, d, st)

SpecAttendance == Init /\ [][NextAttendance]_vars

\* C9: there is at most one Attendance row per (student, date, subject),
\* a null subject included.
C9_OneAttendancePerStudentDateSubject ==
    \A j, k \in DOMAIN attendance :
        (/\ attendance[j].student = attendance[k].student
         /\ attendance[j].date = attendance[k].date
         /\ attendance[j].subject = attendance[k].subject) => j = k

(***************************************************************************)
(* Leave applications: review.                                             *)
(***************************************************************************)
ActionValues == {"approved", "rejected", "pending", "bogus", Absent}

RemarkValues == {"noted"}

NextLeave ==
    \/ \E u \in Users, method \in Methods, complete \in BOOLEAN :
          apply_leave(u, method, complete)
    \/ \E u \in Users, pk \in 1..MaxLeaves, method \in Methods,
          action \in ActionValues, remarks \in RemarkValues :
          leave_review(u, pk, method, action, remarks)
    \/ \E u \in Users : leave_application_list(u)

SpecLeave == Init /\ [][NextLeave]_vars

\* C10: a LeaveApplication whose status is approved or rejected never
\* changes status again.
C10_ReviewedStatusIsFinal ==
    [][\A k \in DOMAIN leaves :
          leaves[k].status \in {"approved", "rejected"} =>
              leaves'[k].status = leaves[k].status]_vars

(***************************************************************************)
(* Leave applications: who reviews, and what a review writes.              *)
(***************************************************************************)
Reviewers == {"admin", "teacher"}

\* C11: a leave_review request answered "ok" comes from an admin or a
\* teacher and writes status, reviewed_by (the acting user), reviewed_on
\* (now) and remarks in one go; a stored application changes by nothing
\* else; and a leave_review request by any other user is denied.
C11_ReviewByAdminOrTeacherOnly ==
    [][/\ (resp'.op = "leave_review" /\ resp'.outcome = "ok") =>
              /\ role[resp'.user] \in Reviewers
              /\ resp'.pk \in DOMAIN leaves
              /\ leaves'[resp'.pk].status = resp'.given
              /\ leaves'[resp'.pk].reviewed_by = resp'.user
              /\ leaves'[resp'.pk].reviewed_on = today
              /\ leaves'[resp'.pk].remarks \in RemarkValues
       /\ \A k \in DOMAIN leaves :
              leaves'[k] # leaves[k] =>
                  /\ resp'.op = "leave_review"
                  /\ resp'.outcome = "ok"
                  /\ resp'.pk = k
       /\ (/\ resp'.op = "leave_review"
           /\ resp'.user \in Users
           /\ role[resp'.user] \notin Reviewers) =>
              /\ resp'.outcome = "denied"
              /\ leaves' = leaves]_vars

\* C11 witness: the teacher approved a student's application
C11_Witness ==
    /\ resp.op = "leave_review"
    /\ resp.outcome = "ok"
    /\ role[resp.user] = "teacher"
    /\ leaves[resp.pk].status = "approved"
    /\ leaves[resp.pk].reviewed_by = resp.user
    /\ leaves[resp.pk].reviewed_on = today
    /\ leaves[resp.pk].applicant # resp.user

(***************************************************************************)
(* Meetings: who changes status, notes and action items.                   *)
(***************************************************************************)
ParticipantSets == {{}, {2, 3}}

MeetingStatusValues == {"completed", "postponed", Absent}

NotesValues == {"", "minutes"}

ItemsValues == {"todo"}

NextMeeting ==
    \/ \E u \in Users, method \in Methods, complete \in BOOLEAN,
          ps \in ParticipantSets :
          meeting_create(u, method, complete, ps)
    \/ \E u \in Users, pk \in 1..MaxMeetings, method \in Methods,
          n \in NotesValues, a \in ItemsValues, st \in MeetingStatusValues :
          meeting_detail(u, pk, method, n, a, st)
    \/ Tick

SpecMeeting == Init /\ [][NextMeeting]_vars

Correspondents == {1, 3, 4}

NextMessage ==
    \/ \E u \in Correspondents, method \in Methods,
          to \in Correspondents \cup {0}, complete \in BOOLEAN :
          send_message(u, method, to, complete)
    \/ \E u \in Correspondents, pk \in 1..MaxMessages : message_detail(u, pk)
    \/ \E u \in Correspondents : inbox(u)
    \/ Tick

SpecMessage == Init /\ [][NextMessage]_vars

\* C13: a Message is unread with read_at unset until its recipient first
\* opens it with message_detail; that request sets is_read and stores the
\* time of the request in read_at; from then on the row never changes, so
\* every later read leaves read_at as the first read set it.
C13_ReadAtSetOnceAtFirstRead ==
    /\ [](\A k \in DOMAIN messages :
             messages[k].is_read <=> messages[k].read_at # NULL)
    /\ [][/\ \A k \in DOMAIN messages' \ DOMAIN messages :
                 ~messages'[k].is_read /\ messages'[k].read_at = NULL
          /\ \A k \in DOMAIN messages :
                 /\ (/\ resp'.op = "message_detail"
                     /\ resp'.outcome = "ok"
                     /\ resp'.pk = k) =>
                        /\ messages'[k].is_read
                        /\ messages'[k].read_at =
                              IF messages[k].is_read
                              THEN messages[k].read_at
                              ELSE today
                 /\ messages[k].is_read => messages'[k] = messages[k]
                 /\ (~messages[k].is_read /\ messages'[k].is_read) =>
                        /\ resp'.op = "message_detail"
                        /\ resp'.pk = k
                        /\ resp'.user = messages[k].recipient]_vars

\* C13 witness: the recipient opened a message again on a later day than
\* the day of the first read, and read_at still holds the earlier day
C13_Witness ==
    /\ resp.op = "message_detail"
    /\ resp.outcome = "ok"
    /\ messages[resp.pk].is_read
    /\ messages[resp.pk].read_at # NULL
    /\ messages[resp.pk].read_at < today

(***************************************************************************)
(* Notices: who sees which, and who creates them.                          *)
(***************************************************************************)
\* the notices submitted: <<target_role, publish_date, expiry_date, is_active>>
NoticeInputs ==
    ({"all", "teacher", "student"} \X {1} \X {NULL} \X BOOLEAN)
        \cup {<<"all", 2, NULL, TRUE>>, <<"student", 0, 1, TRUE>>,
              <<"parent", 1, NULL, TRUE>>}

NextNotice ==
    \/ \E u \in Users, method \in Methods, n \in NoticeInputs :
          notice_create(u, method, n[1], n[2], n[3], n[4])
    \/ \E u \in Users, n \in NoticeInputs :
          NoticeViewSet_create(u, n[1], n[2], n[3], n[4])
    \/ \E u \in Users : notice_list(u)
    \/ \E u \in Users : dashboard(u)
    \/ \E u \in Users : NoticeViewSet_list(u)
    \/ Tick

SpecNotice == Init /\ [][NextNotice]_vars

NoticeReads == {"notice_list", "dashboard", "NoticeViewSet.list"}

\* C14: notice_list, the dashboard and the REST list of notices never hand
\* a student-role user a notice whose target_role is teacher.
C14_TeacherNoticeHiddenFromStudents ==
    (StudentServed /\ resp.op \in NoticeReads) =>
        \A k \in resp.rows : notices[k].target_role # "teacher"

\* C14 witness: a student listed the notices over REST while an active,
\* published notice for teachers was stored, and did not get it
C14_Witness ==
    /\ StudentServed
    /\ resp.op = "NoticeViewSet.list"
    /\ \E k \in DOMAIN notices \ resp.rows :
          /\ notices[k].target_role = "teacher"
          /\ notices[k].is_active
          /\ notices[k].publish_date <= today

\* C15: notice_list and the REST list of notices return a notice only
\* while it is active and inside its publish window: never one with
\* is_active false, with publish_date in the future or with expiry_date in
\* the past.
C15_ListedNoticesActiveAndInWindow ==
    (resp.outcome = "ok" /\ resp.op \in {"notice_list", "NoticeViewSet.list"}) =>
        \A k \in resp.rows :
            /\ notices[k].is_active
            /\ notices[k].publish_date <= today
            /\ notices[k].expiry_date # NULL => today <= notices[k].expiry_date

NoticeWrites == {"notice_create", "NoticeViewSet.create"}

\* C16: a Notice is stored, by the page notice_create or by the REST
\* endpoint, only for an acting user whose role is admin or teacher; a
\* create request by a student-role user is turned away and stores nothing.
C16_NoticeCreatedByAdminOrTeacherOnly ==
    [][/\ \A k \in DOMAIN notices' \ DOMAIN notices :
              /\ resp'.op \in NoticeWrites
              /\ role[resp'.user] \in {"admin", "teacher"}
       /\ (/\ resp'.op \in NoticeWrites
           /\ resp'.user \in Users
           /\ role[resp'.user] = "student") =>
              /\ resp'.outcome # "ok"
              /\ notices' = notices]_vars

(***************************************************************************)
(* Attendance: who marks it.                                               *)
(***************************************************************************)
\* is_staff of the five accounts: the administrator made with
\* createsuperuser (is_staff true), or registered through user_register
\* with role admin (UserRegistrationForm offers every role; is_staff false)
StaffFlags == {InitStaff, <<FALSE, FALSE, FALSE, FALSE, FALSE>>}

InitAccounts ==
    /\ today = 1
    /\ role = InitRole
    /\ is_staff \in StaffFlags
    /\ results = EmptyTable
    /\ result_seq = 0
    /\ fees = EmptyTable
    /\ leaves = EmptyTable
    /\ assignments = EmptyTable
    /\ submissions = EmptyTable
    /\ requests = EmptyTable
    /\ attendance = EmptyTable
    /\ notices = EmptyTable
    /\ messages = EmptyTable
    /\ meetings = EmptyTable
    /\ issues = EmptyTable
    /\ resp = Reply("", NULL, "")

SpecMark == InitAccounts /\ [][NextAttendance]_vars

\* C17: mark_attendance stores an Attendance row only for an acting user
\* whose role is teacher or admin; it denies every other user and then
\* stores nothing; and it denies no user whose role is teacher or admin.
C17_AttendanceMarkedByTeacherOrAdmin ==
    [][/\ \A k \in DOMAIN attendance' \ DOMAIN attendance :
              /\ resp'.op = "mark_attendance"
              /\ role[resp'.user] \in {"teacher", "admin"}
       /\ (resp'.op = "mark_attendance" /\ resp'.user \in Users) =>
              IF role[resp'.user] \in {"teacher", "admin"}
              THEN resp'.outcome # "denied"
              ELSE resp'.outcome = "denied" /\ attendance' = attendance]_vars

(***************************************************************************)
(* Assignments: who creates them, and in whose name.                       *)
(***************************************************************************)
\* C18: assignment_create stores an Assignment only for an acting user
\* whose role is teacher, and the Assignment stored has uploaded_by = the
\* Teacher profile of that user.
C18_AssignmentCreatedByTeacherOnly ==
    [][\A k \in DOMAIN assignments' \ DOMAIN assignments :
          resp'.op = "assignment_create" =>
              /\ role[resp'.user] = "teacher"
              /\ assignments'[k].uploaded_by = teacher_profile(resp'.user)]_vars

(***************************************************************************)
(* Submissions: lateness.                                                  *)
(***************************************************************************)
DueDates == {NULL, 1}

NextLate ==
    \/ \E u \in {1, 2}, due \in DueDates : assignment_create(u, "POST", 1, due)
    \/ \E u \in Users, a \in 1..MaxAssignments, method \in Methods :
          submit_assignment(1, u, a, method, TRUE)
    \/ submit_assignment_save(1)
    \/ \E u \in Users, valid \in BOOLEAN : SubmissionViewSet_create(u, valid)
    \/ Tick

SpecLate == Init /\ [][NextLate]_vars

\* C19: a Submission, when it is stored, has is_late true if its assignment
\* has a due_date and today is after it, and false if the assignment has no
\* due_date or today is the due date or before it; and it is stored for a
\* request of a student-role user.
C19_LateExactlyAfterDueDate ==
    [][\A k \in DOMAIN submissions' \ DOMAIN submissions :
          LET due == assignments[submissions'[k].assignment].due_date
          IN  /\ due = NULL => ~submissions'[k].is_late
              /\ (due # NULL /\ today <= due) => ~submissions'[k].is_late
              /\ (due # NULL /\ today > due) => submissions'[k].is_late
              /\ resp'.user \in Users
              /\ role[resp'.user] = "student"]_vars

\* C19 witness: a student's submission was stored the day after the due date
\* and is late
C19_Witness ==
    /\ resp.op = "submit_assignment"
    /\ resp.outcome = "ok"
    /\ assignments[submissions[resp.pk].assignment].due_date # NULL
    /\ today = assignments[submissions[resp.pk].assignment].due_date + 1
    /\ submissions[resp.pk].is_late

(***************************************************************************)
(* Attendance: who is handed which rows.                                   *)
(***************************************************************************)
DateFilters == {"", "0", "1", "soon"}

NextAttendanceList ==
    \/ \E u \in {1, 2}, s \in Students, d \in {0, 1} :
          mark_attendance(u, "POST", s, 1, d, "present")
    \/ \E u \in Users, f \in DateFilters : attendance_list(u, f)
    \/ \E u \in Users : AttendanceViewSet_list(u)

SpecAttendanceList == Init /\ [][NextAttendanceList]_vars

AttendanceReads == {"attendance_list", "AttendanceViewSet.list"}

\* C20: attendance_list, under every date filter, and the REST list of
\* attendance hand a student-role user only Attendance rows of that user's
\* Student profile, and a teacher or an admin all rows (of the date asked).
C20_AttendanceListsReturnOwnRowsOnly ==
    /\ (StudentServed /\ resp.op \in AttendanceReads) =>
           \A k \in resp.rows : attendance[k].student = student_profile(resp.user)
    /\ (/\ resp.op \in AttendanceReads
        /\ resp.outcome = "ok"
        /\ role[resp.user] \in {"teacher", "admin"}) =>
           resp.rows = {k \in DOMAIN attendance :
                           resp.given = "" \/ attendance[k].date = ParseDate(resp.given)}

(***************************************************************************)
(* Users without their profile.                                            *)
(***************************************************************************)
\* user 5 registered as a student or as a teacher; its Student or Teacher
\* profile was never created
UnprofiledRoles ==
    {InitRole, <<"admin", "teacher", "student", "student", "teacher">>}

InitUnprofiled ==
    /\ today = 1
    /\ role \in UnprofiledRoles
    /\ is_staff = InitStaff
    /\ results = EmptyTable
    /\ result_seq = 0
    /\ fees = EmptyTable
    /\ leaves = EmptyTable
    /\ assignments = EmptyTable
    /\ submissions = EmptyTable
    /\ requests = EmptyTable
    /\ attendance = EmptyTable
    /\ notices = EmptyTable
    /\ messages = EmptyTable
    /\ meetings = EmptyTable
    /\ issues = EmptyTable
    /\ resp = Reply("", NULL, "")

NextProfile ==
    \/ \E u \in {2, 5}, method \in Methods : assignment_create(u, method, 1, NULL)
    \/ \E u \in {2, 5}, method \in Methods :
          mark_attendance(u, method, 1, 1, 0, "present")
    \/ \E u \in {3, 5}, a \in 1..MaxAssignments, method \in Methods :
          submit_assignment(1, u, a, method, TRUE)
    \/ submit_assignment_save(1)
    \/ result_create(2, "POST", 1, 1, "midterm", 900, 10, "")
    \/ FeeAdmin_save(1, NULL, 1, 1, 1, 0, "pending")
    \/ \E u \in Users : assignment_list(u)
    \/ \E u \in Users : result_list(u)
    \/ \E u \in Users : fee_list(u)
    \/ \E u \in Users : exam_list(u)
    \/ \E u \in Users : timetable_view(u)

SpecProfile == InitUnprofiled /\ [][NextProfile]_vars

\* the last request came from a student without Student profile or from a
\* teacher without Teacher profile
Unprofiled(u) ==
    /\ u \in Users
    /\ \/ role[u] = "student" /\ student_profile(u) = NULL
       \/ role[u] = "teacher" /\ teacher_profile(u) = NULL

RoleScopedOps ==
    {"assignment_list", "assignment_create", "mark_attendance",
     "submit_assignment", "result_list", "fee_list", "exam_list",
     "timetable_view"}

\* C21: a role-scoped request of a student without Student profile or of a
\* teacher without Teacher profile never ends in an unhandled exception,
\* and hands that user no rows.
C21_MissingProfileNeverRaises ==
    (Unprofiled(resp.user) /\ resp.op \in RoleScopedOps) =>
        /\ resp.outcome # "error"
        /\ resp.rows = {}

(***************************************************************************)
(* Book issues: the fine.                                                  *)
(***************************************************************************)
ReturnDates == {NULL, 0, 1, 2}

NextFine ==
    \/ \E u \in {1, 2}, s \in Students, due \in {0, 1}, ret \in ReturnDates :
          BookIssueAdmin_save(u, s, due, ret, 0, ret # NULL)
    \/ \E pk \in 1..MaxIssues : BookIssue_calculate_fine(pk)
    \/ Tick

SpecFine == Init /\ [][NextFine]_vars

Max(a, b) == IF a >= b THEN a ELSE b

FineCalculated == resp.op = "BookIssue.calculate_fine"

\* C22: calculate_fine returns 5 * max(0, return_date - due_date) for a
\* book with a return_date, 5 * (today - due_date) for an unreturned book
\* past its due_date and 0 for an unreturned book that is not late; for a
\* book returned late the value returned is the fine stored.
C22_FineIsFivePerDayLate ==
    FineCalculated =>
        LET issue == issues[resp.pk]
        IN  /\ issue.return_date # NULL =>
                  resp.given = FinePerDay * Max(0, issue.return_date - issue.due_date)
            /\ (/\ issue.return_date = NULL
                /\ ~issue.is_returned
                /\ today > issue.due_date) =>
                  resp.given = FinePerDay * (today - issue.due_date)
            /\ (/\ issue.return_date = NULL
                /\ ~issue.is_returned
                /\ today <= issue.due_date) =>
                  resp.given = 0
            /\ (issue.return_date # NULL /\ issue.return_date > issue.due_date) =>
                  resp.given * 100 = issue.fine_amount

\* C23: a call of calculate_fine writes the stored BookIssue only when
\* return_date is set and after due_date, and then only fine_amount; on an
\* unreturned book past its due date and on a book that is not late it
\* leaves the stored row as it was.
C23_FineStoredOnlyWhenReturnedLate ==
    [][resp'.op = "BookIssue.calculate_fine" =>
          LET old == issues[resp'.pk]
              new == issues'[resp'.pk]
          IN  IF old.return_date # NULL /\ old.return_date > old.due_date
              THEN new = [old EXCEPT !.fine_amount = new.fine_amount]
              ELSE new = old]_vars

\* C23 witness: the fine of an unreturned book past its due date was
\* computed, the call returned it, and the stored fine_amount is still 0
C23_Witness ==
    /\ FineCalculated
    /\ issues[resp.pk].return_date = NULL
    /\ ~issues[resp.pk].is_returned
    /\ today > issues[resp.pk].due_date
    /\ resp.given > 0
    /\ issues[resp.pk].fine_amount = 0

(***************************************************************************)
(* Submissions: two requests in flight at once.                            *)
(***************************************************************************)
\* C24: however the checks and the inserts of concurrent submit_assignment
\* requests interleave, no (assignment, student) pair ever has more than one
\* Submission stored.
C24_ConcurrentSubmitsStoreAtMostOne ==
    \A a \in DOMAIN assignments, s \in Students :
        Cardinality(SubmissionsFor(a, s)) <= 1

\* C24 witness: two requests of one student for one assignment both passed
\* the handler's check; the first insert was stored and the second was
\* rejected by the unique index
C24_Witness ==
    /\ resp.op = "submit_assignment"
    /\ resp.outcome = "error"
    /\ resp.user \in Users
    /\ student_profile(resp.user) # NULL
    /\ resp.pk \in DOMAIN assignments
    /\ Cardinality(SubmissionsFor(resp.pk, student_profile(resp.user))) = 1

(***************************************************************************)
(* Status values of leave applications and meetings.                       *)
(***************************************************************************)
LeaveStatusChoices == {"pending", "approved", "rejected"}

\* C25: every stored LeaveApplication has a status among pending, approved
\* and rejected, whatever 'action' leave_review was sent, and an
\* application just created by apply_leave is pending.
C25_LeaveStatusAmongChoices ==
    /\ \A k \in DOMAIN leaves : leaves[k].status \in LeaveStatusChoices
    /\ (resp.op = "apply_leave" /\ resp.outcome = "ok") =>
           leaves[resp.pk].status = "pending"

MeetingStatusChoices == {"scheduled", "ongoing", "completed", "cancelled"}

\* C26: every stored Meeting has a status among scheduled, ongoing,
\* completed and cancelled, whatever 'status' its organizer sent to
\* meeting_detail, and a meeting just created by meeting_create is scheduled.
C26_MeetingStatusAmongChoices ==
    /\ \A k \in DOMAIN meetings : meetings[k].status \in MeetingStatusChoices
    /\ (resp.op = "meeting_create" /\ resp.outcome = "ok") =>
           meetings[resp.pk].status = "scheduled"

C29_MessageOpenedByRecipientOnly ==
    [][/\ (/\ resp'.op = "message_detail"
           /\ resp'.pk \in DOMAIN messages
           /\ resp'.user # messages[resp'.pk].recipient) =>
              /\ resp'.outcome = "not_found"
              /\ resp'.rows = {}
              /\ messages' = messages
       /\ \A k \in DOMAIN messages :
              (\/ messages'[k].is_read # messages[k].is_read
               \/ messages'[k].read_at # messages[k].read_at) =>
                  resp'.user = messages[k].recipient
       /\ resp'.op = "inbox" =>
              \A k \in resp'.rows : messages[k].recipient = resp'.user]_vars

\* C29 witness: the sender of an unread message asked for it and was told
\* it does not exist; the message is still unread
C29_Witness ==
    /\ resp.op = "message_detail"
    /\ resp.outcome = "not_found"
    /\ resp.pk \in DOMAIN messages
    /\ messages[resp.pk].sender = resp.user
    /\ messages[resp.pk].recipient # resp.user
    /\ ~messages[resp.pk].is_read
    /\ messages[resp.pk].read_at = NULL

(***************************************************************************)
(* Meetings: who is shown one.                                             *)
(***************************************************************************)
\* user 5 registered with role admin: a second administrator
TwoAdminRoles == <<"admin", "teacher", "student", "student", "admin">>

InitTwoAdmins ==
    /\ today = 1
    /\ role = TwoAdminRoles
    /\ is_staff = InitStaff
    /\ results = EmptyTable
    /\ result_seq = 0
    /\ fees = EmptyTable
    /\ leaves = EmptyTable
    /\ assignments = EmptyTable
    /\ submissions = EmptyTable
    /\ requests = EmptyTable
    /\ attendance = EmptyTable
    /\ notices = EmptyTable
    /\ messages = EmptyTable
    /\ meetings = EmptyTable
    /\ issues = EmptyTable
    /\ resp = Reply("", NULL, "")

SpecMeetingAccess == InitTwoAdmins /\ [][NextMeeting]_vars

\* C30: meeting_detail shows or updates a Meeting only for its organizer or
\* one of its participants; a request for a stored meeting by any other
\* user, an admin included, is denied, is handed nothing and changes nothing.
C30_MeetingShownToMembersOnly ==
    [][(resp'.op = "meeting_detail" /\ resp'.pk \in DOMAIN meetings) =>
          LET meeting == meetings[resp'.pk]
              member  == \/ meeting.organized_by = resp'.user
                         \/ resp'.user \in meeting.participants
          IN  /\ resp'.outcome \in {"shown", "ok"} => member
              /\ ~member =>
                    /\ resp'.outcome = "denied"
                    /\ resp'.rows = {}
                    /\ meetings' = meetings]_vars

\* C30 witness: an administrator who neither organized the meeting nor is
\* invited to it asked for it and was denied
C30_Witness ==
    /\ resp.op = "meeting_detail"
    /\ resp.outcome = "denied"
    /\ role[resp.user] = "admin"
    /\ meetings[resp.pk].organized_by # resp.user
    /\ resp.user \notin meetings[resp.pk].participants
====
